---- MODULE Spec2Model ----
(***************************************************************************)
(* A model of two components of the export pipeline:                       *)
(*                                                                         *)
(*  - ReplaceViewOpsWithViewCopyOpsPass.call_operator                      *)
(*    (torch/_export/passes/replace_view_ops_with_view_copy_ops_pass.py)   *)
(*  - CrossRefFakeMode.__torch_dispatch__ (torch/_subclasses/fake_utils.py)*)
(*                                                                         *)
(* Strings that the code takes apart or builds (schema names) are          *)
(* sequences of tokens: "aten::view" is <<"aten", "::", "view">> and       *)
(* "view" + "_copy" is <<"view", "_copy">>.  Python objects are records    *)
(* whose fields are the object's attributes; reading an attribute an       *)
(* object does not have raises AttributeError.                             *)
(***************************************************************************)
EXTENDS Integers, Sequences, FiniteSets, TLC

VARIABLES
    \* ---- the rewrite pass: the node being visited and what was done ----
    visited,      \* TRUE once call_operator has run on a node
    op,           \* the operator identifier handed to call_operator
    schema,       \* the registry's schema of op (what op._schema would be)
    args,         \* the node's positional arguments
    kwargs,       \* the node's keyword arguments
    meta,         \* the node's metadata
    delegated,    \* the calls made to super().call_operator, in order
    exc,          \* the exception call_operator ended with, or "none"
    reached,      \* TRUE when get_view_copy_of_view_op was called
    \* ---- the dispatch interception: one call of __torch_dispatch__ ----
    ignore_op_fn, \* the set of function names the predicate answers True for
    pc,           \* position in __torch_dispatch__
    func,         \* the intercepted function
    d_args,       \* flattened leaves of args
    d_kwargs,     \* kwargs as passed: None or its flattened leaves
    i,            \* next leaf to lift / next pair to compare
    fake_r,       \* the abstract result, or None
    r,            \* the real result
    ret,          \* the value returned
    err,          \* the exception the call ended with
    log           \* what the call did: counters and history

passVars == <<visited, op, schema, args, kwargs, meta, delegated, exc, reached>>
dispVars == <<ignore_op_fn, pc, func, d_args, d_kwargs, i, fake_r, r, ret, err, log>>
vars == <<passVars, dispVars>>

\* ------------------------------------------------------------------ bounds

\* Longest argument list of a schema.
MaxArgs == 2
\* Most leaves in the flattened positional arguments of an intercepted call.
MaxArgLeaves == 1
\* Most leaves in the flattened keyword arguments of an intercepted call.
MaxKwargLeaves == 1
\* Most leaves in a flattened result tree.
MaxLeaves == 2

\* ================================================================ strings

startswith(s, p) == Len(s) >= Len(p) /\ SubSeq(s, 1, Len(p)) = p

\* Index of the first token tok of s at or after position k; Len(s) + 1 if none.
RECURSIVE find(_, _, _)
find(s, tok, k) ==
    IF k > Len(s) THEN Len(s) + 1
    ELSE IF s[k] = tok THEN k
    ELSE find(s, tok, k + 1)

\* s.split("::")[1]: the piece between the first "::" and the next one.
split_1(s) ==
    LET a == find(s, "::", 1)
        b == find(s, "::", a + 1)
    IN  SubSeq(s, a + 1, b - 1)

\* ============================================== operator identifiers, schemas

None == [_name |-> <<>>, _overloadname |-> "None"]

OpOverload(name, overloadname) == [_name |-> name, _overloadname |-> overloadname]

aten(base) == <<"aten", "::">> \o base

\* The identifier that carries a schema: its qualified name, and "default" for
\* the empty overload name.
OpOf(s) ==
    OpOverload(s.name, IF s.overload_name = "" THEN "default" ELSE s.overload_name)

hasattr(obj, a) == a \in DOMAIN obj

Namespaces == {"aten", "custom"}
Bases == { <<"view">>, <<"transpose">>, <<"foo">>, <<"_unsafe_view">>,
           <<"sym_size">>, <<"sym_stride">>, <<"sym_numel">> }
OverloadNames == {"", "int"}
AliasInfos == {"None", "(a)"}

ArgLists ==
    UNION { [1..n -> [alias_info : AliasInfos]] : n \in 0..MaxArgs }

Schemas ==
    { [name |-> <<ns, "::">> \o b, overload_name |-> o, arguments |-> al] :
        ns \in Namespaces, b \in Bases, o \in OverloadNames, al \in ArgLists }

\* torch.ops.aten: the overloads each registered "<base>_copy" packet has.
aten_overloads(n) ==
    CASE n = <<"view", "_copy">>          -> {"default"}
      [] n = <<"transpose", "_copy">>     -> {"int"}
      [] n = <<"_unsafe_view", "_copy">>  -> {"default"}
      [] n = <<"sym_size", "_copy">>      -> {"default", "int"}
      [] n = <<"sym_stride", "_copy">>    -> {"int"}
      [] OTHER                            -> {}

hasattr_aten(n) == aten_overloads(n) # {}
hasattr_packet(n, o) == o \in aten_overloads(n)
getattr_packet(n, o) == OpOverload(aten(n), o)

_NON_FUNCTIONAL_OPS_TO_FUNCTIONAL_OPS ==
    [k \in {OpOverload(aten(<<"_unsafe_view">>), "default")} |->
        OpOverload(aten(<<"view", "_copy">>), "default")]

_BLACK_LISTED_OPS ==
    { aten(<<"sym_size">>), aten(<<"sym_stride">>), aten(<<"sym_numel">>) }

\* op in _BLACK_LISTED_OPS: op is of one of the listed packets.
in_black_list(o) == o._name \in _BLACK_LISTED_OPS

\* ========================================================= the rewrite pass

Value(v) == [exc |-> "none", value |-> v]
Raise(e) == [exc |-> e, value |-> None]

is_view_op(s) ==
    IF ~hasattr(s, "arguments") THEN [exc |-> "AttributeError", value |-> FALSE]
    ELSE IF Len(s.arguments) = 0 THEN [exc |-> "none", value |-> FALSE]
    ELSE [exc |-> "none", value |-> s.arguments[1].alias_info # "None"]

get_view_copy_of_view_op(s) ==
    LET v == is_view_op(s) IN
    IF v.exc # "none" THEN Raise(v.exc)
    ELSE IF ~v.value THEN Value(None)
    ELSE IF ~hasattr(s, "name") THEN Raise("AttributeError")
    ELSE IF startswith(s.name, <<"aten", "::">>) THEN
        LET view_op_name == split_1(s.name)
            view_op_overload ==
                IF s.overload_name # "" THEN s.overload_name ELSE "default"
            view_copy_op_name == view_op_name \o <<"_copy">>
        IN  IF ~hasattr_aten(view_copy_op_name) THEN Value(None)
            ELSE IF ~hasattr_packet(view_copy_op_name, view_op_overload)
                 THEN Value(None)
            ELSE Value(getattr_packet(view_copy_op_name, view_op_overload))
    ELSE Value(None)

\* super().call_operator(o, a, k, m), recorded.
super_call_operator(o, a, k, m) ==
    [exc |-> "none", reached |-> FALSE,
     calls |-> << [op |-> o, args |-> a, kwargs |-> k, meta |-> m] >>]

\* Lines 68-71: derive the view-copy operator and delegate.
derive_and_delegate(o, a, k, m) ==
    LET view_copy_op == get_view_copy_of_view_op(o) IN
    IF view_copy_op.exc # "none"
    THEN [exc |-> view_copy_op.exc, reached |-> TRUE, calls |-> <<>>]
    ELSE IF view_copy_op.value # None
    THEN [super_call_operator(view_copy_op.value, a, k, m) EXCEPT !.reached = TRUE]
    ELSE [super_call_operator(o, a, k, m) EXCEPT !.reached = TRUE]

\* call_operator with the static-table branch left out.
call_operator_no_table(o, a, k, m) ==
    IF in_black_list(o) THEN super_call_operator(o, a, k, m)
    ELSE derive_and_delegate(o, a, k, m)

\* call_operator with the exclusion branch left out.
call_operator_no_black_list(o, a, k, m) ==
    IF o \in DOMAIN _NON_FUNCTIONAL_OPS_TO_FUNCTIONAL_OPS
    THEN super_call_operator(_NON_FUNCTIONAL_OPS_TO_FUNCTIONAL_OPS[o], a, k, m)
    ELSE derive_and_delegate(o, a, k, m)

call_operator(o, a, k, m) ==
    IF o \in DOMAIN _NON_FUNCTIONAL_OPS_TO_FUNCTIONAL_OPS
    THEN super_call_operator(_NON_FUNCTIONAL_OPS_TO_FUNCTIONAL_OPS[o], a, k, m)
    ELSE IF in_black_list(o) THEN super_call_operator(o, a, k, m)
    ELSE derive_and_delegate(o, a, k, m)

ArgValues == {"x", "y"}
KwargValues == {"{}", "{dim: 0}"}
MetaValues == {"m1", "m2"}

NoSchema == [name |-> <<>>, overload_name |-> "", arguments |-> <<>>]

InitPassVars ==
    /\ visited = FALSE
    /\ op = None
    /\ schema = NoSchema
    /\ args = "x"
    /\ kwargs = "{}"
    /\ meta = "m1"
    /\ delegated = <<>>
    /\ exc = "none"
    /\ reached = FALSE

\* The traversal visits a node: call_operator(op, args, kwargs, meta).  The pass
\* keeps nothing from one node to the next, so a behaviour is one visit.
CallOperator ==
    /\ ~visited
    /\ \E s \in Schemas, a \in ArgValues, k \in KwargValues, m \in MetaValues :
        LET o == OpOf(s)
            res == call_operator(o, a, k, m)
        IN  /\ visited' = TRUE
            /\ op' = o
            /\ schema' = s
            /\ args' = a
            /\ kwargs' = k
            /\ meta' = m
            /\ delegated' = res.calls
            /\ exc' = res.exc
            /\ reached' = res.reached
            /\ UNCHANGED dispVars

\* ================================================== the dispatch interception

Tags == {"dynamic_output_shape", "inplace_view", "data_dependent_output"}

\* The functions not cross-checked, by identity (lines 35-37).
FixedSkipped ==
    {"lift_fresh.default", "lift_fresh_copy.default",
     "set_.source_Storage_storage_offset"}

FuncNames == FixedSkipped \cup {"add.Tensor", "mul.Tensor"}

Funcs ==
    { [name |-> n, tags |-> tg] :
        n \in FuncNames, tg \in {{}} \cup {{x} : x \in Tags} }

\* ignore_op_fn as given to __init__: None, or a predicate (the names it holds for).
NoPredicate == [is_none |-> TRUE, names |-> {}]
IgnoreChoices == { NoPredicate, [is_none |-> FALSE, names |-> {"mul.Tensor"}] }

\* Line 13: the predicate kept by __init__.
init_ignore_op_fn(given) == IF ~given.is_none THEN given.names ELSE {}

\* Tensor metadata: what compare_tensor_meta reads.
M0 == [shape |-> <<2>>, dtype |-> "float32", stride |-> <<1>>]
Metas == { M0,
           [M0 EXCEPT !.shape = <<3>>],
           [M0 EXCEPT !.dtype = "int64"],
           [M0 EXCEPT !.stride = <<2>>] }

Leaf(kind, m) == [kind |-> kind, meta |-> m]
Other == Leaf("other", M0)

\* isinstance(t, torch.Tensor); a FakeTensor is a Tensor.
is_tensor(t) == t.kind \in {"real", "fake"}
is_fake(t) == t.kind = "fake"

SeqsUpTo(S, n) == UNION { [1..k -> S] : k \in 0..n }

ArgLeaves == { Leaf("real", M0), Leaf("fake", M0), Other }
RealLeaves == { Leaf("real", M0), Leaf("real", [M0 EXCEPT !.shape = <<3>>]), Other }
FakeLeaves == { Leaf("fake", m) : m \in Metas } \cup { Other }

Some(leaves) == [is_none |-> FALSE, leaves |-> leaves]
NoneValue == [is_none |-> TRUE, leaves |-> <<>>]

ArgChoices == SeqsUpTo(ArgLeaves, MaxArgLeaves)
KwargChoices == { NoneValue } \cup { Some(l) : l \in SeqsUpTo(ArgLeaves, MaxKwargLeaves) }
RealResults == SeqsUpTo(RealLeaves, MaxLeaves)
FakeResults == { NoneValue } \cup { Some(l) : l \in SeqsUpTo(FakeLeaves, MaxLeaves) }

\* What a call into the abstract substrate can do.
LiftOutcomes == {"ok", "UnsupportedFakeTensorException"}
FakeRaises == {"UnsupportedFakeTensorException", "RuntimeError"}

\* Line 16: kwargs = kwargs or {}.
or_empty(kw) == IF kw.is_none \/ kw.leaves = <<>> THEN <<>> ELSE kw.leaves

\* The leaves tree_map walks: those of args, then those of kwargs (line 46).
tree_leaves(a, kw) == a \o or_empty(kw)

\* Lines 33-43 with the data_dependent_output tag not consulted.
shadow_allowed_no_data_dependent(f, ignore) ==
    /\ f.name \notin FixedSkipped
    /\ f.name \notin ignore
    /\ "dynamic_output_shape" \notin f.tags
    /\ "inplace_view" \notin f.tags

\* Lines 33-43: whether the abstract execution is attempted.
shadow_allowed(f, ignore) ==
    /\ f.name \notin FixedSkipped
    /\ f.name \notin ignore
    /\ "dynamic_output_shape" \notin f.tags
    /\ "inplace_view" \notin f.tags
    /\ "data_dependent_output" \notin f.tags

\* on_tensor without its assertion.
on_tensor_no_assert(t) == IF is_tensor(t) THEN "lift" ELSE "pass"

\* Lines 18-25: what on_tensor(f) does with a leaf.
on_tensor(t) ==
    IF is_tensor(t)
    THEN IF is_fake(t) THEN "AssertionError" ELSE "lift"
    ELSE "pass"

\* An except clause that catches nothing.
caught_nothing(e) == FALSE

\* Line 48: the except clause of the shadow phase.
caught(e) == e = "UnsupportedFakeTensorException"

\* A strict zip: nothing is paired when the lengths differ.
zip_len_strict(a, b) == IF Len(a) = Len(b) THEN Len(a) ELSE 0

\* Line 53: zip stops at the end of the shorter sequence.
zip_len(a, b) == IF Len(a) <= Len(b) THEN Len(a) ELSE Len(b)

\* compare_tensor_meta(a, b, check_strides=True): the first field that differs.
compare_tensor_meta(a, b) ==
    IF a.meta.shape # b.meta.shape THEN "shape"
    ELSE IF a.meta.dtype # b.meta.dtype THEN "dtype"
    ELSE IF a.meta.stride # b.meta.stride THEN "stride"
    ELSE "ok"

\* Returning the abstract result when there is one.
return_value_fake(real, fake) == IF fake.is_none THEN real ELSE fake.leaves

\* Line 61: return r.
return_value(real, fake) == real

\* A mismatch error that does not say which function it is about.
mismatch_error_anonymous(f, c) ==
    [type |-> "RuntimeError", func |-> "", cause |-> c, phase |-> "compare"]

\* Line 60: RuntimeError(f"Mismatch on {func}: {repr(e)}").
mismatch_error(f, c) ==
    [type |-> "RuntimeError", func |-> f.name, cause |-> c, phase |-> "compare"]

NoErr == [type |-> "none", func |-> "", cause |-> "", phase |-> ""]
NoFunc == [name |-> "", tags |-> {}]
EmptyLog ==
    [scopes |-> 0, open |-> FALSE, lifts |-> 0, fake_execs |-> 0,
     real_execs |-> 0, real_args |-> NoneValue, real_kwargs |-> NoneValue,
     compared |-> <<>>, shadow |-> "none", signal |-> "none",
     unsupported_at |-> 0]

InitDispVars(given) ==
    /\ ignore_op_fn = init_ignore_op_fn(given)
    /\ pc = "idle"
    /\ func = NoFunc
    /\ d_args = <<>>
    /\ d_kwargs = NoneValue
    /\ i = 0
    /\ fake_r = NoneValue
    /\ r = <<>>
    /\ ret = NoneValue
    /\ err = NoErr
    /\ log = EmptyLog

\* __torch_dispatch__ is entered (lines 15-45): the gate is decided and, when it
\* passes, the FakeTensorMode scope is opened.  Nothing but ignore_op_fn outlives
\* a call, so a behaviour is one call.
Dispatch ==
    /\ pc = "idle"
    /\ \E f \in Funcs, a \in ArgChoices, kw \in KwargChoices :
        /\ func' = f
        /\ d_args' = a
        /\ d_kwargs' = kw
        /\ fake_r' = NoneValue
        /\ r' = <<>>
        /\ ret' = NoneValue
        /\ err' = NoErr
        /\ i' = 1
        /\ IF shadow_allowed(f, ignore_op_fn)
           THEN /\ pc' = "lift"
                /\ log' = [EmptyLog EXCEPT !.scopes = 1, !.open = TRUE,
                                           !.shadow = "running"]
           ELSE /\ pc' = "real"
                /\ log' = [EmptyLog EXCEPT !.shadow = "skipped"]
    /\ UNCHANGED <<ignore_op_fn, passVars>>

\* An exception e leaves the with-block of the shadow phase (lines 45-49).
ShadowRaise(e, newlog) ==
    IF caught(e)
    THEN /\ pc' = "real"
         /\ err' = NoErr
         /\ log' = [newlog EXCEPT !.open = FALSE, !.signal = e,
                                  !.shadow = "unsupported"]
    ELSE /\ pc' = "raised"
         /\ err' = [type |-> e, func |-> "", cause |-> "", phase |-> "shadow"]
         /\ log' = [newlog EXCEPT !.open = FALSE, !.signal = e,
                                  !.shadow = "failed"]

\* tree_map visits the next leaf of (args, kwargs) (line 46, lines 18-25).
Lift ==
    /\ pc = "lift"
    /\ i <= Len(tree_leaves(d_args, d_kwargs))
    /\ LET t == tree_leaves(d_args, d_kwargs)[i]
           what == on_tensor(t)
       IN  IF what = "pass"
           THEN /\ i' = i + 1
                /\ UNCHANGED <<pc, err, log>>
           ELSE IF what = "lift"
           THEN \E out \in LiftOutcomes :
                    LET l == [log EXCEPT !.lifts = @ + 1] IN
                    IF out = "ok"
                    THEN /\ i' = i + 1
                         /\ log' = l
                         /\ UNCHANGED <<pc, err>>
                    ELSE /\ ShadowRaise(out, [l EXCEPT !.unsupported_at = i])
                         /\ UNCHANGED i
           ELSE /\ ShadowRaise(what, log)
                /\ UNCHANGED i
    /\ UNCHANGED <<ignore_op_fn, func, d_args, d_kwargs, fake_r, r, ret, passVars>>

\* fake_r = func(*fake_args, **fake_kwargs), then the scope is left (lines 47-49).
FakeExec ==
    /\ pc = "lift"
    /\ i > Len(tree_leaves(d_args, d_kwargs))
    /\ LET l == [log EXCEPT !.fake_execs = @ + 1] IN
       \/ \E v \in FakeResults :
            /\ fake_r' = v
            /\ pc' = "real"
            /\ log' = [l EXCEPT !.open = FALSE, !.shadow = "completed"]
            /\ UNCHANGED err
       \/ \E e \in FakeRaises :
            /\ ShadowRaise(e, l)
            /\ UNCHANGED fake_r
    /\ UNCHANGED <<ignore_op_fn, func, d_args, d_kwargs, i, r, ret, passVars>>

\* r = func(*args, **kwargs) and the start of the comparison (lines 51-53, 61).
RealExec ==
    /\ pc = "real"
    /\ \E v \in RealResults :
        /\ r' = v
        /\ log' = [log EXCEPT !.real_execs = @ + 1,
                              !.real_args = Some(d_args),
                              !.real_kwargs = Some(or_empty(d_kwargs))]
        /\ IF ~fake_r.is_none /\ zip_len(v, fake_r.leaves) > 0
           THEN /\ pc' = "compare"
                /\ i' = 1
                /\ UNCHANGED ret
           ELSE /\ pc' = "returned"
                /\ ret' = Some(return_value(v, fake_r))
                /\ UNCHANGED i
    /\ UNCHANGED <<ignore_op_fn, func, d_args, d_kwargs, fake_r, err, passVars>>

\* One turn of the comparison loop (lines 53-61).
Compare ==
    /\ pc = "compare"
    /\ LET r_out == r[i]
           fake_out == fake_r.leaves[i]
           r_ten == is_tensor(r_out)
           last == i >= zip_len(r, fake_r.leaves)
           go_on == /\ i' = i + 1
                    /\ pc' = IF last THEN "returned" ELSE "compare"
                    /\ ret' = IF last THEN Some(return_value(r, fake_r)) ELSE ret
                    /\ UNCHANGED err
       IN  IF r_ten # is_tensor(fake_out)
           THEN /\ pc' = "raised"
                /\ err' = [type |-> "AssertionError", func |-> "", cause |-> "",
                           phase |-> "compare"]
                /\ UNCHANGED <<i, ret, log>>
           ELSE IF r_ten
           THEN LET c == compare_tensor_meta(r_out, fake_out) IN
                /\ log' = [log EXCEPT !.compared = Append(@, i)]
                /\ IF c # "ok"
                   THEN /\ pc' = "raised"
                        /\ err' = mismatch_error(func, c)
                        /\ UNCHANGED <<i, ret>>
                   ELSE go_on
           ELSE /\ go_on
                /\ UNCHANGED log
    /\ UNCHANGED <<ignore_op_fn, func, d_args, d_kwargs, fake_r, r, passVars>>

\* ============================================================ specifications

\* The rewrite pass alone.
InitPass == InitPassVars /\ InitDispVars(NoPredicate)
NextPass == CallOperator
SpecPass == InitPass /\ [][NextPass]_vars

\* The dispatch interception alone.
InitDispatch == InitPassVars /\ \E given \in IgnoreChoices : InitDispVars(given)
NextDispatch == Dispatch \/ Lift \/ FakeExec \/ RealExec \/ Compare
SpecDispatch == InitDispatch /\ [][NextDispatch]_vars

\* ======================================================= the pass's claims

UnsafeViewDefault == OpOverload(<<"aten", "::", "_unsafe_view">>, "default")
ViewCopyDefault == OpOverload(<<"aten", "::", "view", "_copy">>, "default")
ExcludedFamilies ==
    { <<"aten", "::", "sym_size">>, <<"aten", "::", "sym_stride">>,
      <<"aten", "::", "sym_numel">> }

\* The call the base delegation step is expected to receive for operator o.
Delegation(o) == [op |-> o, args |-> args, kwargs |-> kwargs, meta |-> meta]

\* The effective operator of section 4.1, step 3, read off the schema s of o.
Reference(o, s) ==
    LET base == SubSeq(s.name, 3, Len(s.name))
        qualifier == IF s.overload_name = "" THEN "default" ELSE s.overload_name
        registered ==
            CASE base = <<"view">>         -> {"default"}
              [] base = <<"transpose">>    -> {"int"}
              [] base = <<"_unsafe_view">> -> {"default"}
              [] base = <<"sym_size">>     -> {"default", "int"}
              [] base = <<"sym_stride">>   -> {"int"}
              [] OTHER                     -> {}
    IN  IF /\ Len(s.arguments) >= 1
           /\ s.arguments[1].alias_info # "None"
           /\ s.name[1] = "aten"
           /\ qualifier \in registered
        THEN OpOverload(<<"aten", "::">> \o base \o <<"_copy">>, qualifier)
        ELSE o

\* C1: a key of the static substitution table is delegated as the operator the
\* table maps it to, whatever its schema says, and schema derivation is not
\* reached for it.
C1_StaticMappingFirst ==
    (visited /\ op = UnsafeViewDefault) =>
        /\ exc = "none"
        /\ ~reached
        /\ delegated = << Delegation(ViewCopyDefault) >>

\* C1 witness: the static key was visited with a schema from which the
\* derivation would have produced another operator.
C1_Witness ==
    /\ visited
    /\ op = UnsafeViewDefault
    /\ Reference(op, schema) \notin {op, ViewCopyDefault}
    /\ delegated = << Delegation(ViewCopyDefault) >>

C3_DerivationMatchesReference ==
    (visited /\ op # UnsafeViewDefault /\ op._name \notin ExcludedFamilies) =>
        /\ exc = "none"
        /\ Len(delegated) = 1
        /\ delegated[1].op = Reference(op, schema)

\* C4 as stated: on every visited node the base delegation step is invoked
\* exactly once, with the args, kwargs and meta call_operator was given.
C4_DelegatedExactlyOnce ==
    visited =>
        /\ Len(delegated) = 1
        /\ delegated[1].args = args
        /\ delegated[1].kwargs = kwargs
        /\ delegated[1].meta = meta

\* =================================================== the dispatch's claims

Done == pc \in {"returned", "raised"}

\* The cases in which the claims say the shadow phase is skipped.
Skipped ==
    \/ func.name \in {"lift_fresh.default", "lift_fresh_copy.default",
                      "set_.source_Storage_storage_offset"}
    \/ func.name \in ignore_op_fn
    \/ func.tags \cap
         {"dynamic_output_shape", "inplace_view", "data_dependent_output"} # {}

\* The leaves of the call's arguments, those of args first.
GivenLeaves == d_args \o (IF d_kwargs.is_none THEN <<>> ELSE d_kwargs.leaves)

\* Number of pairs the lockstep walk of the two results has.
Pairs ==
    IF Len(r) <= Len(fake_r.leaves) THEN Len(r) ELSE Len(fake_r.leaves)

BothTensors(j) == r[j].kind # "other" /\ fake_r.leaves[j].kind # "other"
KindMismatch(j) == (r[j].kind = "other") # (fake_r.leaves[j].kind = "other")
Disagrees(j) ==
    /\ BothTensors(j)
    /\ \/ r[j].meta.shape # fake_r.leaves[j].meta.shape
       \/ r[j].meta.dtype # fake_r.leaves[j].meta.dtype
       \/ r[j].meta.stride # fake_r.leaves[j].meta.stride
Offending(j) == KindMismatch(j) \/ Disagrees(j)
HasOffending == \E j \in 1..Pairs : Offending(j)
FirstOffending ==
    CHOOSE j \in 1..Pairs : Offending(j) /\ \A k \in 1..(j - 1) : ~Offending(k)
ComparedSet == { log.compared[x] : x \in 1..Len(log.compared) }

\* C5: when func is one of the three fixed operations, or ignore_op_fn holds
\* for it, or it carries one of the three tags, no abstract scope is opened,
\* nothing is lifted, func is not executed abstractly, nothing is compared, and
\* the call returns the result of the real execution.
C5_SkippedShadow ==
    (pc # "idle" /\ Skipped) =>
        /\ log.scopes = 0
        /\ log.lifts = 0
        /\ log.fake_execs = 0
        /\ log.compared = <<>>
        /\ fake_r.is_none
        /\ pc \in {"real", "returned"}
        /\ (pc = "returned" => log.real_execs = 1 /\ ret = Some(r))

\* C5 witness: a call of a function tagged data_dependent_output, with a
\* tensor argument, has returned.
C5_Witness ==
    /\ pc = "returned"
    /\ func.name = "add.Tensor"
    /\ "data_dependent_output" \in func.tags
    /\ \E j \in 1..Len(GivenLeaves) : GivenLeaves[j].kind = "real"
    /\ Len(r) > 0

\* C6 as stated: on every call, whatever happened in the shadow phase, func is
\* executed on the original real arguments, and a returned value is the result
\* of that execution.
C6_RealAlwaysExecuted ==
    Done =>
        /\ log.real_execs = 1
        /\ log.real_args = Some(d_args)
        /\ (pc = "returned" => ret = Some(r))

\* C6, amended: func is executed once on the original real arguments unless the
\* shadow phase ended with a failure other than the unsupported signal, in which
\* case that failure ends the call and func is not executed on them; a returned
\* value is exactly the result of the real execution, and structurally agreeing
\* results make the call return.
C6_RealExecutedUnlessShadowFails ==
    /\ (Done /\ log.signal \in {"none", "UnsupportedFakeTensorException"}) =>
            /\ log.real_execs = 1
            /\ log.real_args = Some(d_args)
            /\ log.real_kwargs =
                 Some(IF d_kwargs.is_none THEN <<>> ELSE d_kwargs.leaves)
    /\ (log.signal \notin {"none", "UnsupportedFakeTensorException"}) =>
            /\ pc = "raised"
            /\ err.type = log.signal
            /\ log.real_execs = 0
    /\ (pc = "returned") => (ret = Some(r) /\ log.real_execs = 1)
    /\ (Done /\ log.real_execs = 1 /\ ~fake_r.is_none /\ ~HasOffending) =>
            pc = "returned"

\* C6 witness: the shadow phase ran to completion on a tensor result, the two
\* results agree, and the call has returned.
C6_Witness ==
    /\ pc = "returned"
    /\ ~fake_r.is_none
    /\ Len(r) >= 1
    /\ Len(fake_r.leaves) >= 1
    /\ BothTensors(1)
    /\ ret = Some(r)

\* C7: with an abstract result, the first pair of the walk that is offending
\* ends the call: a tensor pair that disagrees in shape, dtype or stride raises
\* the diagnostic error naming func and wrapping the comparison failure, a pair
\* of which exactly one leaf is a tensor raises the assertion error; no value is
\* returned and no later pair is compared.
C7_MismatchRaises ==
    (log.real_execs = 1 /\ ~fake_r.is_none /\ HasOffending) =>
        /\ pc # "returned"
        /\ ret = NoneValue
        /\ \A j \in ComparedSet : j <= FirstOffending
        /\ Done =>
            /\ pc = "raised"
            /\ IF Disagrees(FirstOffending)
               THEN /\ err.type = "RuntimeError"
                    /\ err.func = func.name
                    /\ err.cause \in {"shape", "dtype", "stride"}
                    /\ ComparedSet = { j \in 1..FirstOffending : BothTensors(j) }
               ELSE /\ err.type = "AssertionError"
                    /\ ComparedSet =
                         { j \in 1..(FirstOffending - 1) : BothTensors(j) }

\* C7 witness: the first of two tensor pairs disagreed and the call raised
\* without comparing the second.
C7_Witness ==
    /\ pc = "raised"
    /\ err.type = "RuntimeError"
    /\ Pairs = 2
    /\ Disagrees(1)
    /\ BothTensors(2)
    /\ log.compared = <<1>>

\* C8: the unsupported signal of the shadow phase is not propagated: the
\* abstract result is absent, the real execution runs, nothing is compared, and
\* the call returns the real result.
C8_UnsupportedSwallowed ==
    (log.signal = "UnsupportedFakeTensorException") =>
        /\ pc \in {"real", "returned"}
        /\ err = NoErr
        /\ fake_r.is_none
        /\ ~log.open
        /\ log.compared = <<>>
        /\ (pc = "returned" => log.real_execs = 1 /\ ret = Some(r))

\* C8 witness: the abstract execution of func signalled unsupported and the
\* call has returned a result.
C8_Witness ==
    /\ pc = "returned"
    /\ log.signal = "UnsupportedFakeTensorException"
    /\ log.fake_execs = 1
    /\ Len(r) > 0

\* C9 as stated: every call with a tensor leaf that is already a fake tensor
\* ends with the assertion error, for every func.
C9_FakeLeafAlwaysAsserts ==
    (Done /\ \E j \in 1..Len(GivenLeaves) : GivenLeaves[j].kind = "fake") =>
        /\ pc = "raised"
        /\ err.type = "AssertionError"

FirstFake ==
    CHOOSE j \in 1..Len(GivenLeaves) :
        /\ GivenLeaves[j].kind = "fake"
        /\ \A k \in 1..(j - 1) : GivenLeaves[k].kind # "fake"

\* C9, amended: when the shadow phase is attempted and some tensor leaf is
\* already a fake tensor, the call ends with the assertion error without
\* executing func on the real arguments, unless lifting an earlier tensor leaf
\* signalled unsupported; when the shadow phase is skipped no such check is made
\* and the call returns the real result.
C9_FakeLeafAssertsInShadow ==
    (Done /\ \E j \in 1..Len(GivenLeaves) : GivenLeaves[j].kind = "fake") =>
        IF Skipped
        THEN pc = "returned" /\ ret = Some(r)
        ELSE \/ /\ pc = "raised"
                /\ err.type = "AssertionError"
                /\ err.phase = "shadow"
                /\ log.real_execs = 0
                /\ log.fake_execs = 0
                /\ log.unsupported_at = 0
             \/ /\ log.signal = "UnsupportedFakeTensorException"
                /\ log.unsupported_at \in 1..(FirstFake - 1)
                /\ GivenLeaves[log.unsupported_at].kind = "real"
                /\ pc = "returned"

\* C9 witness: a real tensor was lifted, the next leaf was a fake tensor, and
\* the call ended with the assertion error.
C9_Witness ==
    /\ pc = "raised"
    /\ err.type = "AssertionError"
    /\ err.phase = "shadow"
    /\ log.lifts = 1
    /\ Len(GivenLeaves) = 2
    /\ GivenLeaves[2].kind = "fake"

\* C10: the comparison checks only the first min(n_real, n_abstract) pairs; a
\* difference in the number of leaves raises nothing by itself; and an abstract
\* execution that returns None leads to no comparison.
C10_ZipTruncates ==
    /\ \A j \in ComparedSet : j <= Pairs
    /\ (Done /\ log.real_execs = 1 /\ ~fake_r.is_none /\ ~HasOffending) =>
            /\ pc = "returned"
            /\ ret = Some(r)
            /\ ComparedSet = { j \in 1..Pairs : BothTensors(j) }
    /\ (log.shadow = "completed" /\ fake_r.is_none) =>
            /\ log.compared = <<>>
            /\ pc \in {"real", "returned"}

\* C10 witness: results of different leaf counts were compared on their common
\* prefix and the call returned.
C10_Witness ==
    /\ pc = "returned"
    /\ ~fake_r.is_none
    /\ Len(r) # Len(fake_r.leaves)
    /\ log.compared # <<>>

====
